---- MODULE Spec2Model ----
(***************************************************************************)
(* ApplicationSet analyzer (pkg/analyzer).                                 *)
(*                                                                         *)
(* Handler.Run lists the ApplicationSets of the cluster, analyzes each one *)
(* (conditions, progressing state, generators, generated applications) and *)
(* returns one Result: a name, a details log and the list of findings      *)
(* (Result.Error).                                                         *)
(*                                                                         *)
(* The package declares analyzeApplicationSet, analyzeGenerators and       *)
(* analyzeGeneratedApplications twice: over unstructured documents in      *)
(* appset.go and over typed objects in analyzer.go.  The per-ApplicationSet*)
(* analysis modelled here is the one of appset.go, the one the tests of    *)
(* analyzer_test.go pin down (finding texts, inline applicationStatus);    *)
(* Run is the one of analyzer.go.                                          *)
(*                                                                         *)
(* A finding is the pair (format string, arguments) handed to fmt.Sprintf. *)
(***************************************************************************)
EXTENDS Integers, Sequences, FiniteSets, TLC

VARIABLES
    dynamicClient,   \* "nil" or "set": Handler.dynamicClient
    listErr,         \* does the list of all ApplicationSets fail
    items,           \* applicationSets.Items: what the cluster holds
    pc,              \* position of Run: "start", "loop", "done"
    idx,             \* 1-based position of the next item of the range loop
    errors,          \* Run's local errors
    details,         \* Run's local details
    appSetErrors,    \* findings returned by the last analyzeApplicationSet
    calls,           \* list calls issued on the dynamic client, in order
    response,        \* the RunResponse returned, NoResponse before
    cancelledAt,     \* 0 while ctx is live, else the value of idx when ctx was cancelled
    previous         \* the RunResponse of the previous invocation, NoResponse if none

vars == <<dynamicClient, listErr, items, pc, idx, errors, details,
          appSetErrors, calls, response, cancelledAt, previous>>

----------------------------------------------------------------------------
(* Bounds of the explored clusters. *)

MaxParents == 2
MaxConds == 2
MaxGens == 2
MaxInline == 2
MaxLive == 2

----------------------------------------------------------------------------
(* Sequence helpers. *)

RECURSIVE ConcatAll(_)
ConcatAll(ss) ==
    IF Len(ss) = 0 THEN <<>> ELSE Head(ss) \o ConcatAll(Tail(ss))

Sprintf(format, args) == [format |-> format, args |-> args]

----------------------------------------------------------------------------
(* Format strings of the findings, by the stage that produces them. *)

FmtErrorCondition   == "ApplicationSet %s/%s has error condition: %s"
FmtParameters       == "ApplicationSet %s/%s failed to generate parameters: %s"
FmtNotUpToDate      == "ApplicationSet %s/%s resources are not up to date: %s"
FmtProgressing      == "ApplicationSet %s/%s is in progressing state: %s"
FmtInvalidGenerators == "ApplicationSet %s/%s has invalid generators configuration: %v"
FmtNoGenerators     == "ApplicationSet %s/%s has no generators defined"
FmtInvalidGenerator == "ApplicationSet %s/%s has invalid generator at index %d"
FmtEmptyGenerator   == "ApplicationSet %s/%s has empty generator at index %d"
FmtGitRepoURL       == "ApplicationSet %s/%s Git generator at index %d has empty repoURL"
FmtListNoElements   == "ApplicationSet %s/%s List generator at index %d has no elements or elementsYaml"
FmtListEmpty        == "ApplicationSet %s/%s List generator at index %d has empty elements array"
FmtClusterNone      == "ApplicationSet %s/%s Cluster generator at index %d has no selector or values"
FmtClusterEmpty     == "ApplicationSet %s/%s Cluster generator at index %d has empty values"
FmtInlineHealth     == "Generated Application %s is not healthy (status: %s): %s"
FmtInlineSync       == "Generated Application %s is not synced (status: %s)"
FmtNoApplications   == "ApplicationSet %s/%s has no generated applications"
FmtAppHealth        == "Application %s/%s is not healthy (status: %s): %s"
FmtAppSync          == "Application %s/%s is not synced (status: %s)"
FmtAppOperation     == "Application %s/%s has failed operation: %s"
FmtConvert          == "Failed to convert ApplicationSet %s/%s: %v"
FmtListFailed       == "Error listing ApplicationSets: %v"
FmtNoClient         == "Could not connect to Kubernetes cluster. Ensure kubeconfig is properly configured or running in-cluster."

----------------------------------------------------------------------------
(* appset.go: analysis of one ApplicationSet document.                      *)
(* A document field read with unstructured.NestedSlice is                  *)
(* [kind, items]: kind "absent" (found = false), "invalid" (err # nil: the *)
(* value is no sequence) or "seq".                                         *)

Slice(field) == IF field.kind = "seq" THEN field.items ELSE <<>>

ConditionErrors(appSet, c) ==
    IF ~c.isMap THEN <<>>
    ELSE IF c.type = "ErrorOccurred" /\ c.status = "True"
         THEN <<Sprintf(FmtErrorCondition, <<appSet.namespace, appSet.name, c.message>>)>>
    ELSE IF c.type = "ParametersGenerated" /\ c.status = "False"
         THEN <<Sprintf(FmtParameters, <<appSet.namespace, appSet.name, c.message>>)>>
    ELSE IF c.type = "ResourcesUpToDate" /\ c.status = "False"
         THEN <<Sprintf(FmtNotUpToDate, <<appSet.namespace, appSet.name, c.message>>)>>
    ELSE <<>>

checkConditions_Reversed(appSet) ==
    IF appSet.conditions.kind # "seq" THEN <<>>
    ELSE ConcatAll([i \in 1..Len(appSet.conditions.items) |->
                        ConditionErrors(appSet,
                            appSet.conditions.items[Len(appSet.conditions.items) + 1 - i])])

checkConditions(appSet) ==
    IF appSet.conditions.kind # "seq" THEN <<>>
    ELSE ConcatAll([i \in 1..Len(appSet.conditions.items) |->
                        ConditionErrors(appSet, appSet.conditions.items[i])])

ProgressingErrors_AnyCase(appSet, c) ==
    IF c.isMap /\ c.type \in {"Progressing", "progressing"} /\ c.status = "True"
    THEN <<Sprintf(FmtProgressing, <<appSet.namespace, appSet.name, c.message>>)>>
    ELSE <<>>

ProgressingErrors(appSet, c) ==
    IF c.isMap /\ c.type = "Progressing" /\ c.status = "True"
    THEN <<Sprintf(FmtProgressing, <<appSet.namespace, appSet.name, c.message>>)>>
    ELSE <<>>

checkProgressingState(appSet) ==
    IF appSet.conditions.kind # "seq" THEN <<>>
    ELSE ConcatAll([i \in 1..Len(appSet.conditions.items) |->
                        ProgressingErrors(appSet, appSet.conditions.items[i])])

(* A generator entry is [isMap, keys, git, list, clusters]: keys are the   *)
(* keys of the mapping, and git, list, clusters describe the value under   *)
(* the key of that name (read only when the key is present).               *)

GitErrors_MissingAllowed(appSet, generator, index) ==
    IF "git" \in generator.keys /\ generator.git.isMap
       /\ generator.git.hasRepoURL /\ generator.git.repoURL = ""
    THEN <<Sprintf(FmtGitRepoURL, <<appSet.namespace, appSet.name, ToString(index)>>)>>
    ELSE <<>>

GitErrors(appSet, generator, index) ==
    IF "git" \in generator.keys /\ generator.git.isMap
       /\ (~generator.git.hasRepoURL \/ generator.git.repoURL = "")
    THEN <<Sprintf(FmtGitRepoURL, <<appSet.namespace, appSet.name, ToString(index)>>)>>
    ELSE <<>>

ListErrors_YamlIgnored(appSet, generator, index) ==
    IF "list" \in generator.keys /\ generator.list.isMap
    THEN IF ~generator.list.hasElements
         THEN <<Sprintf(FmtListNoElements, <<appSet.namespace, appSet.name, ToString(index)>>)>>
         ELSE IF generator.list.elementsIsSlice /\ generator.list.elementsLen = 0
         THEN <<Sprintf(FmtListEmpty, <<appSet.namespace, appSet.name, ToString(index)>>)>>
         ELSE <<>>
    ELSE <<>>

ListErrors(appSet, generator, index) ==
    IF "list" \in generator.keys /\ generator.list.isMap
    THEN IF ~generator.list.hasElements /\ ~generator.list.hasElementsYaml
         THEN <<Sprintf(FmtListNoElements, <<appSet.namespace, appSet.name, ToString(index)>>)>>
         ELSE IF generator.list.hasElements /\ generator.list.elementsIsSlice
                 /\ generator.list.elementsLen = 0
         THEN <<Sprintf(FmtListEmpty, <<appSet.namespace, appSet.name, ToString(index)>>)>>
         ELSE <<>>
    ELSE <<>>

ClusterErrors_SelectorHidesValues(appSet, generator, index) ==
    IF "clusters" \in generator.keys /\ generator.clusters.isMap
    THEN IF ~generator.clusters.hasSelector /\ ~generator.clusters.hasValues
         THEN <<Sprintf(FmtClusterNone, <<appSet.namespace, appSet.name, ToString(index)>>)>>
         ELSE IF ~generator.clusters.hasSelector /\ generator.clusters.valuesIsMap
                 /\ generator.clusters.valuesLen = 0
         THEN <<Sprintf(FmtClusterEmpty, <<appSet.namespace, appSet.name, ToString(index)>>)>>
         ELSE <<>>
    ELSE <<>>

ClusterErrors(appSet, generator, index) ==
    IF "clusters" \in generator.keys /\ generator.clusters.isMap
    THEN IF ~generator.clusters.hasSelector /\ ~generator.clusters.hasValues
         THEN <<Sprintf(FmtClusterNone, <<appSet.namespace, appSet.name, ToString(index)>>)>>
         ELSE IF generator.clusters.hasValues /\ generator.clusters.valuesIsMap
                 /\ generator.clusters.valuesLen = 0
         THEN <<Sprintf(FmtClusterEmpty, <<appSet.namespace, appSet.name, ToString(index)>>)>>
         ELSE <<>>
    ELSE <<>>

validateGeneratorType(appSet, generator, index) ==
    GitErrors(appSet, generator, index)
        \o ListErrors(appSet, generator, index)
        \o ClusterErrors(appSet, generator, index)

GeneratorErrors(appSet, gen, index) ==
    IF ~gen.isMap
    THEN <<Sprintf(FmtInvalidGenerator, <<appSet.namespace, appSet.name, ToString(index)>>)>>
    ELSE IF gen.keys = {}
    THEN <<Sprintf(FmtEmptyGenerator, <<appSet.namespace, appSet.name, ToString(index)>>)>>
    ELSE validateGeneratorType(appSet, gen, index)

analyzeGenerators_AbsentSilent(appSet) ==
    IF appSet.generators.kind = "invalid"
    THEN <<Sprintf(FmtInvalidGenerators, <<appSet.namespace, appSet.name, "err">>)>>
    ELSE IF appSet.generators.kind = "absent"
    THEN <<>>
    ELSE IF Len(appSet.generators.items) = 0
    THEN <<Sprintf(FmtNoGenerators, <<appSet.namespace, appSet.name>>)>>
    ELSE ConcatAll([i \in 1..Len(appSet.generators.items) |->
                        GeneratorErrors(appSet, appSet.generators.items[i], i - 1)])

analyzeGenerators(appSet) ==
    IF appSet.generators.kind = "invalid"
    THEN <<Sprintf(FmtInvalidGenerators, <<appSet.namespace, appSet.name, "err">>)>>
    ELSE IF appSet.generators.kind = "absent" \/ Len(appSet.generators.items) = 0
    THEN <<Sprintf(FmtNoGenerators, <<appSet.namespace, appSet.name>>)>>
    ELSE ConcatAll([i \in 1..Len(appSet.generators.items) |->
                        GeneratorErrors(appSet, appSet.generators.items[i], i - 1)])

(* An entry of status.applicationStatus is [isMap, application, health,    *)
(* sync, message]; a missing or non-string field reads as "".              *)

InlineErrors_EmptyCounts(app) ==
    IF ~app.isMap THEN <<>>
    ELSE (IF app.health # "Healthy"
          THEN <<Sprintf(FmtInlineHealth, <<app.application, app.health, app.message>>)>>
          ELSE <<>>)
         \o
         (IF app.sync # "" /\ app.sync # "Synced"
          THEN <<Sprintf(FmtInlineSync, <<app.application, app.sync>>)>>
          ELSE <<>>)

InlineErrors(app) ==
    IF ~app.isMap THEN <<>>
    ELSE (IF app.health # "" /\ app.health # "Healthy"
          THEN <<Sprintf(FmtInlineHealth, <<app.application, app.health, app.message>>)>>
          ELSE <<>>)
         \o
         (IF app.sync # "" /\ app.sync # "Synced"
          THEN <<Sprintf(FmtInlineSync, <<app.application, app.sync>>)>>
          ELSE <<>>)

(* getApplicationSetStatus: the status lines of one ApplicationSet.        *)
FmtStatusCondition == "Condition: %s = %s (%s)"
FmtStatusGenerated == "Generated Applications: %d"
FmtStatusApp       == "  App: %s (Health: %s, Sync: %s)"

getApplicationSetStatus_OnlyFindings(appSet) ==
    ConcatAll([i \in 1..Len(Slice(appSet.conditions)) |->
        LET c == Slice(appSet.conditions)[i]
        IN  IF c.isMap THEN <<Sprintf(FmtStatusCondition, <<c.type, c.status, c.message>>)>>
            ELSE <<>>])
    \o
    (IF appSet.applicationStatus.kind = "seq"
     THEN <<Sprintf(FmtStatusGenerated, <<ToString(Len(appSet.applicationStatus.items))>>)>>
          \o ConcatAll([i \in 1..Len(appSet.applicationStatus.items) |->
                LET app == appSet.applicationStatus.items[i]
                IN  IF app.isMap /\ app.application # "" /\ InlineErrors(app) # <<>>
                    THEN <<Sprintf(FmtStatusApp, <<app.application, app.health, app.sync>>)>>
                    ELSE <<>>])
     ELSE <<>>)

getApplicationSetStatus(appSet) ==
    ConcatAll([i \in 1..Len(Slice(appSet.conditions)) |->
        LET c == Slice(appSet.conditions)[i]
        IN  IF c.isMap THEN <<Sprintf(FmtStatusCondition, <<c.type, c.status, c.message>>)>>
            ELSE <<>>])
    \o
    (IF appSet.applicationStatus.kind = "seq"
     THEN <<Sprintf(FmtStatusGenerated, <<ToString(Len(appSet.applicationStatus.items))>>)>>
          \o ConcatAll([i \in 1..Len(appSet.applicationStatus.items) |->
                LET app == appSet.applicationStatus.items[i]
                IN  IF app.isMap /\ app.application # ""
                    THEN <<Sprintf(FmtStatusApp, <<app.application, app.health, app.sync>>)>>
                    ELSE <<>>])
     ELSE <<>>)

(* A live Application is [namespace, name, healthFound, health,            *)
(* healthMessage, syncFound, sync, phaseFound, phase, operationMessage]:   *)
(* the Found flags are those of the Nested* reads of status.health.status, *)
(* status.sync.status and status.operationState.phase.                     *)

analyzeApplication_OperationFirst(app) ==
    (IF app.phaseFound /\ app.phase = "Failed"
     THEN <<Sprintf(FmtAppOperation, <<app.namespace, app.name, app.operationMessage>>)>>
     ELSE <<>>)
    \o
    (IF app.healthFound /\ app.health # "Healthy"
     THEN <<Sprintf(FmtAppHealth, <<app.namespace, app.name, app.health, app.healthMessage>>)>>
     ELSE <<>>)
    \o
    (IF app.syncFound /\ app.sync # "Synced"
     THEN <<Sprintf(FmtAppSync, <<app.namespace, app.name, app.sync>>)>>
     ELSE <<>>)

analyzeApplication(app) ==
    (IF app.healthFound /\ app.health # "Healthy"
     THEN <<Sprintf(FmtAppHealth, <<app.namespace, app.name, app.health, app.healthMessage>>)>>
     ELSE <<>>)
    \o
    (IF app.syncFound /\ app.sync # "Synced"
     THEN <<Sprintf(FmtAppSync, <<app.namespace, app.name, app.sync>>)>>
     ELSE <<>>)
    \o
    (IF app.phaseFound /\ app.phase = "Failed"
     THEN <<Sprintf(FmtAppOperation, <<app.namespace, app.name, app.operationMessage>>)>>
     ELSE <<>>)

(* applications is the outcome of the label-filtered list of Applications: *)
(* [err, items].                                                           *)

InlineStatusErrors(appSet) ==
    ConcatAll([i \in 1..Len(Slice(appSet.applicationStatus)) |->
                   InlineErrors(Slice(appSet.applicationStatus)[i])])

LiveErrors_SkipsReported(appSet, applications) ==
    (IF Len(applications.items) = 0 /\ Len(Slice(appSet.applicationStatus)) = 0
     THEN <<Sprintf(FmtNoApplications, <<appSet.namespace, appSet.name>>)>>
     ELSE <<>>)
    \o ConcatAll([i \in 1..Len(applications.items) |->
                      IF \E j \in 1..Len(Slice(appSet.applicationStatus)) :
                            /\ Slice(appSet.applicationStatus)[j].application = applications.items[i].name
                            /\ InlineErrors(Slice(appSet.applicationStatus)[j]) # <<>>
                      THEN <<>>
                      ELSE analyzeApplication(applications.items[i])])

LiveErrors_IgnoresInline(appSet, applications) ==
    (IF Len(applications.items) = 0
     THEN <<Sprintf(FmtNoApplications, <<appSet.namespace, appSet.name>>)>>
     ELSE <<>>)
    \o ConcatAll([i \in 1..Len(applications.items) |->
                      analyzeApplication(applications.items[i])])

LiveErrors(appSet, applications) ==
    (IF Len(applications.items) = 0 /\ Len(Slice(appSet.applicationStatus)) = 0
     THEN <<Sprintf(FmtNoApplications, <<appSet.namespace, appSet.name>>)>>
     ELSE <<>>)
    \o ConcatAll([i \in 1..Len(applications.items) |->
                      analyzeApplication(applications.items[i])])

analyzeGeneratedApplications_ReportsListError(appSet, applications) ==
    IF applications.err
    THEN InlineStatusErrors(appSet)
            \o <<Sprintf("Failed to list applications for ApplicationSet %s/%s: %v",
                         <<appSet.namespace, appSet.name, "err">>)>>
    ELSE InlineStatusErrors(appSet) \o LiveErrors(appSet, applications)

analyzeGeneratedApplications_FailureIsEmpty(appSet, applications) ==
    IF applications.err
    THEN InlineStatusErrors(appSet) \o LiveErrors(appSet, [err |-> FALSE, items |-> <<>>])
    ELSE InlineStatusErrors(appSet) \o LiveErrors(appSet, applications)

analyzeGeneratedApplications(appSet, applications) ==
    IF applications.err
    THEN InlineStatusErrors(appSet)
    ELSE InlineStatusErrors(appSet) \o LiveErrors(appSet, applications)

analyzeApplicationSet_ProgressingFirst(appSet, applications) ==
    checkProgressingState(appSet)
        \o checkConditions(appSet)
        \o analyzeGenerators(appSet)
        \o analyzeGeneratedApplications(appSet, applications)

analyzeApplicationSet_StopsAtGenerators(appSet, applications) ==
    checkConditions(appSet)
        \o checkProgressingState(appSet)
        \o analyzeGenerators(appSet)
        \o (IF appSet.generators.kind # "seq" \/ Len(appSet.generators.items) = 0
            THEN <<>>
            ELSE analyzeGeneratedApplications(appSet, applications))

analyzeApplicationSet(appSet, applications) ==
    checkConditions(appSet)
        \o checkProgressingState(appSet)
        \o analyzeGenerators(appSet)
        \o analyzeGeneratedApplications(appSet, applications)

----------------------------------------------------------------------------
(* The clusters explored.  An item of the ApplicationSet list is           *)
(* [namespace, name, convertible, conditions, generators,                  *)
(*  applicationStatus, applications]: convertible is the outcome of        *)
(* FromUnstructured on it, and applications the store's answer [err, items]*)
(* to the label-filtered list of its generated Applications.               *)

Absent == [kind |-> "absent", items |-> <<>>]
Invalid == [kind |-> "invalid", items |-> <<>>]
SeqField(s) == [kind |-> "seq", items |-> s]

CondTypes == {"ErrorOccurred", "ParametersGenerated", "ResourcesUpToDate",
              "Progressing", "progressing"}
CondStatuses == {"True", "False", "Unknown"}

NotAMapCondition == [isMap |-> FALSE, type |-> "", status |-> "", message |-> ""]
Condition(t, st) == [isMap |-> TRUE, type |-> t, status |-> st, message |-> ""]
CondEntries == {NotAMapCondition} \cup {Condition(t, st) : t \in CondTypes, st \in CondStatuses}

(* Entries are told apart by their position: the i-th condition carries    *)
(* message "msg-i", the i-th application is named "app-i".                 *)
WithMessages(field) ==
    [field EXCEPT !.items = [i \in 1..Len(field.items) |->
        IF field.items[i].isMap
        THEN [field.items[i] EXCEPT !.message = "msg-" \o ToString(i)]
        ELSE field.items[i]]]

NoGit == [isMap |-> FALSE, hasRepoURL |-> FALSE, repoURL |-> ""]
NoList == [isMap |-> FALSE, hasElements |-> FALSE, elementsIsSlice |-> FALSE,
           elementsLen |-> 0, hasElementsYaml |-> FALSE]
NoClusters == [isMap |-> FALSE, hasSelector |-> FALSE, hasValues |-> FALSE,
               valuesIsMap |-> FALSE, valuesLen |-> 0]
Generator(keys, g, l, c) ==
    [isMap |-> TRUE, keys |-> keys, git |-> g, list |-> l, clusters |-> c]
NotAMapGenerator ==
    [isMap |-> FALSE, keys |-> {}, git |-> NoGit, list |-> NoList, clusters |-> NoClusters]

GitGen(has, url) == [isMap |-> TRUE, hasRepoURL |-> has, repoURL |-> url]
GitVals == {NoGit, GitGen(FALSE, ""), GitGen(TRUE, ""), GitGen(TRUE, "https://github.com/example/repo")}

ListGen(hasE, isSlice, n, hasY) ==
    [isMap |-> TRUE, hasElements |-> hasE, elementsIsSlice |-> isSlice,
     elementsLen |-> n, hasElementsYaml |-> hasY]
ListVals == {NoList, ListGen(FALSE, FALSE, 0, FALSE), ListGen(TRUE, TRUE, 0, FALSE),
             ListGen(TRUE, TRUE, 2, FALSE), ListGen(FALSE, FALSE, 0, TRUE),
             ListGen(TRUE, TRUE, 0, TRUE), ListGen(TRUE, FALSE, 0, FALSE)}

ClustersGen(hasS, hasV, isM, n) ==
    [isMap |-> TRUE, hasSelector |-> hasS, hasValues |-> hasV,
     valuesIsMap |-> isM, valuesLen |-> n]
ClusterVals == {NoClusters, ClustersGen(FALSE, FALSE, FALSE, 0), ClustersGen(TRUE, FALSE, FALSE, 0),
                ClustersGen(FALSE, TRUE, TRUE, 0), ClustersGen(FALSE, TRUE, TRUE, 1),
                ClustersGen(TRUE, TRUE, TRUE, 0), ClustersGen(FALSE, TRUE, FALSE, 0)}

GoodGit == Generator({"git"}, GitGen(TRUE, "https://github.com/example/repo"), NoList, NoClusters)

GenEntries ==
    {NotAMapGenerator,
     Generator({}, NoGit, NoList, NoClusters),
     Generator({"plugin"}, NoGit, NoList, NoClusters),
     Generator({"matrix"}, NoGit, NoList, NoClusters),
     Generator({"git", "list", "clusters"}, GitGen(TRUE, ""), ListGen(FALSE, FALSE, 0, FALSE),
               ClustersGen(FALSE, FALSE, FALSE, 0))}
    \cup {Generator({"git"}, g, NoList, NoClusters) : g \in GitVals}
    \cup {Generator({"list"}, NoGit, l, NoClusters) : l \in ListVals}
    \cup {Generator({"clusters"}, NoGit, NoList, c) : c \in ClusterVals}

NotAMapInline ==
    [isMap |-> FALSE, application |-> "", health |-> "", sync |-> "", message |-> ""]
Inline(h, sy) ==
    [isMap |-> TRUE, application |-> "app", health |-> h, sync |-> sy, message |-> "Application is unhealthy"]
(* An entry without an application name: the string assertion of line 317  *)
(* reads it as "".                                                         *)
UnnamedInline ==
    [isMap |-> TRUE, application |-> "", health |-> "Healthy", sync |-> "Synced", message |-> ""]
InlineEntries ==
    {NotAMapInline, UnnamedInline}
    \cup {Inline(h, sy) : h \in {"", "Healthy", "Degraded"}, sy \in {"", "Synced", "OutOfSync"}}

WithApplications(field) ==
    [field EXCEPT !.items = [i \in 1..Len(field.items) |->
        IF field.items[i].isMap /\ field.items[i].application # ""
        THEN [field.items[i] EXCEPT !.application = "app-" \o ToString(i)]
        ELSE field.items[i]]]

Live(hf, h, sf, sy, pf, ph) ==
    [namespace |-> "default", name |-> "", healthFound |-> hf, health |-> h,
     healthMessage |-> "Pod is failing", syncFound |-> sf, sync |-> sy,
     phaseFound |-> pf, phase |-> ph, operationMessage |-> "Sync operation failed"]
LiveHealth == {<<FALSE, "">>, <<TRUE, "">>, <<TRUE, "Healthy">>, <<TRUE, "Degraded">>}
LiveSync == {<<FALSE, "">>, <<TRUE, "Synced">>, <<TRUE, "OutOfSync">>}
LivePhase == {<<FALSE, "">>, <<TRUE, "Failed">>}
(* The three checks of analyzeApplication are independent ifs: the         *)
(* entries vary one field at a time, next to the all-good and the all-bad  *)
(* Application.                                                            *)
LiveEntries ==
    {Live(TRUE, "Healthy", TRUE, "Synced", TRUE, "Succeeded"),
     Live(TRUE, "Degraded", TRUE, "OutOfSync", TRUE, "Failed")}
    \cup {Live(h[1], h[2], FALSE, "", FALSE, "") : h \in LiveHealth}
    \cup {Live(FALSE, "", sy[1], sy[2], FALSE, "") : sy \in LiveSync}
    \cup {Live(FALSE, "", FALSE, "", ph[1], ph[2]) : ph \in LivePhase}

ListFailed == [err |-> TRUE, items |-> <<>>]
Listed(s) == [err |-> FALSE, items |-> [i \in 1..Len(s) |-> [s[i] EXCEPT !.name = "app-" \o ToString(i)]]]

FailedOperationOnly == Live(FALSE, "", FALSE, "", TRUE, "Failed")

Body(conv, conds, gens, inline, apps) ==
    [namespace |-> "default", name |-> "", convertible |-> conv,
     conditions |-> WithMessages(conds), generators |-> gens,
     applicationStatus |-> WithApplications(inline), applications |-> apps]

(* Small values of each part, combined freely in clusters of several       *)
(* ApplicationSets.                                                        *)
SomeConditions == {Absent, SeqField(<<Condition("Progressing", "True"),
                                      Condition("ParametersGenerated", "False")>>)}
SomeGenerators == {SeqField(<<>>), SeqField(<<GoodGit>>)}
SomeInline == {Absent, SeqField(<<Inline("Degraded", "OutOfSync")>>)}
SomeApplications == {ListFailed, Listed(<<>>), Listed(<<FailedOperationOnly>>)}

NoisyConditions == SeqField(<<Condition("ErrorOccurred", "True"), Condition("Progressing", "True")>>)
NoisyInline == SeqField(<<Inline("Degraded", "OutOfSync")>>)

SomeParts == {<<c, g>> \in SomeConditions \X SomeGenerators :
                  (c = Absent) = (g = SeqField(<<GoodGit>>))}

RunBodies ==
    {Body(FALSE, NoisyConditions, SeqField(<<>>), NoisyInline, Listed(<<FailedOperationOnly>>))}
    \cup {Body(TRUE, p[1], p[2], a, l) : p \in SomeParts, a \in SomeInline, l \in SomeApplications}

Named(s) == [i \in 1..Len(s) |-> [s[i] EXCEPT !.name = "appset-" \o ToString(i)]]

(* A cluster of up to MaxParents ApplicationSets with small parts.         *)
RunCluster(c) ==
    \E k \in 0..MaxParents : \E s \in [1..k -> RunBodies] : c = Named(s)

(* A cluster of one ApplicationSet with one part explored in full, the     *)
(* others fixed to values that yield findings of their own.                *)
ConditionCluster(c) ==
    \/ \E f \in {Absent, Invalid} :
          c = Named(<<Body(TRUE, f, SeqField(<<>>), NoisyInline, Listed(<<FailedOperationOnly>>))>>)
    \/ \E k \in 0..MaxConds : \E s \in [1..k -> CondEntries] :
          c = Named(<<Body(TRUE, SeqField(s), SeqField(<<>>), NoisyInline,
                           Listed(<<FailedOperationOnly>>))>>)

GeneratorCluster(c) ==
    \/ \E f \in {Absent, Invalid} :
          c = Named(<<Body(TRUE, NoisyConditions, f, NoisyInline, Listed(<<FailedOperationOnly>>))>>)
    \/ \E k \in 0..MaxGens : \E s \in [1..k -> GenEntries] :
          c = Named(<<Body(TRUE, NoisyConditions, SeqField(s), NoisyInline,
                           Listed(<<FailedOperationOnly>>))>>)

InlineCluster(c) ==
    \E l \in SomeApplications :
        \/ \E f \in {Absent, Invalid} :
              c = Named(<<Body(TRUE, NoisyConditions, SeqField(<<>>), f, l)>>)
        \/ \E k \in 0..MaxInline : \E s \in [1..k -> InlineEntries] :
              c = Named(<<Body(TRUE, NoisyConditions, SeqField(<<>>), SeqField(s), l)>>)

LiveCluster(c) ==
    \E a \in SomeInline : \E k \in 0..MaxLive : \E s \in [1..k -> LiveEntries] :
        c = Named(<<Body(TRUE, NoisyConditions, SeqField(<<>>), a, Listed(s))>>)

(* A cluster of one ApplicationSet whose parts are mostly in order: the    *)
(* healthy ApplicationSet of the tests and its neighbours.                 *)
QuietConditions == {Absent, SeqField(<<Condition("ResourcesUpToDate", "True")>>)}
QuietGenerators ==
    {GoodGit,
     Generator({"list"}, NoGit, ListGen(TRUE, TRUE, 2, FALSE), NoClusters),
     Generator({}, NoGit, NoList, NoClusters)}
QuietInline ==
    {Absent, SeqField(<<>>), SeqField(<<Inline("Healthy", "Synced")>>),
     SeqField(<<Inline("Healthy", "Synced"), Inline("", "")>>)}
QuietApplications ==
    {ListFailed, Listed(<<>>),
     Listed(<<Live(TRUE, "Healthy", TRUE, "Synced", TRUE, "Succeeded")>>),
     Listed(<<Live(FALSE, "", FALSE, "", FALSE, "")>>)}

HealthyCluster(c) ==
    \E cs \in QuietConditions : \E a \in QuietInline : \E l \in QuietApplications :
        \E k \in 0..MaxGens : \E s \in [1..k -> QuietGenerators] :
            c = Named(<<Body(TRUE, cs, SeqField(s), a, l)>>)

----------------------------------------------------------------------------
(* analyzer.go: Handler.Run.                                               *)

AnalyzerName == "applicationset-analyzer"

NoResponse == [name |-> "", details |-> <<>>, error |-> <<>>, err |-> "none"]

(* Run returns (response, nil) on every path: err is always "nil".         *)
Response(d, e) == [name |-> AnalyzerName, details |-> d, error |-> e, err |-> "nil"]

ListApplicationSets == [resource |-> "applicationsets", namespace |-> "", labelSelector |-> ""]
ListApplications(appSet) ==
    [resource |-> "applications", namespace |-> appSet.namespace,
     labelSelector |-> "argocd.argoproj.io/application-set-name=" \o appSet.name]

ConditionDetails(appSet) ==
    LET cs == SelectSeq(Slice(appSet.conditions), LAMBDA c : c.isMap)
    IN  [i \in 1..Len(cs) |->
            Sprintf("  Condition: %s = %s (%s)", <<cs[i].type, cs[i].status, cs[i].message>>)]

Init ==
    /\ dynamicClient \in {"nil", "set"}
    /\ listErr \in BOOLEAN
    /\ \/ RunCluster(items)
       \/ /\ dynamicClient = "set" /\ ~listErr
          /\ \/ ConditionCluster(items)
             \/ GeneratorCluster(items)
             \/ InlineCluster(items)
             \/ LiveCluster(items)
             \/ HealthyCluster(items)
    /\ pc = "start"
    /\ idx = 0
    /\ errors = <<>>
    /\ details = <<>>
    /\ appSetErrors = <<>>
    /\ calls = <<>>
    /\ response = NoResponse
    /\ cancelledAt = 0
    /\ previous = NoResponse

(* Lines 57-69: no client. *)
RunNoClient ==
    /\ pc = "start"
    /\ dynamicClient = "nil"
    /\ response' = Response(<<Sprintf("Failed to initialize Kubernetes client", <<>>)>>,
                            <<Sprintf(FmtNoClient, <<>>)>>)
    /\ pc' = "done"
    /\ UNCHANGED <<previous, cancelledAt, dynamicClient, listErr, items, idx, errors, details, appSetErrors, calls>>

RunListFailed_GoesOn ==
    /\ pc = "start"
    /\ dynamicClient = "set"
    /\ listErr
    /\ calls' = Append(calls, ListApplicationSets)
    /\ errors' = <<Sprintf(FmtListFailed, <<"err">>)>>
    /\ details' = <<Sprintf("Failed to list ApplicationSets: %v", <<"err">>)>>
    /\ idx' = 1
    /\ pc' = "loop"
    /\ UNCHANGED <<previous, cancelledAt, dynamicClient, listErr, items, appSetErrors, response>>

(* Lines 79-92: the list of all ApplicationSets fails. *)
RunListFailed ==
    /\ pc = "start"
    /\ dynamicClient = "set"
    /\ listErr
    /\ calls' = Append(calls, ListApplicationSets)
    /\ response' = Response(<<Sprintf("Failed to list ApplicationSets: %v", <<"err">>)>>,
                            <<Sprintf(FmtListFailed, <<"err">>)>>)
    /\ pc' = "done"
    /\ UNCHANGED <<previous, cancelledAt, dynamicClient, listErr, items, idx, errors, details, appSetErrors>>

RunNoApplicationSets_FallsThrough ==
    /\ pc = "start"
    /\ dynamicClient = "set"
    /\ ~listErr
    /\ Len(items) = 0
    /\ calls' = Append(calls, ListApplicationSets)
    /\ response' = Response(<<Sprintf("Found %d ApplicationSet(s) in the cluster", <<"0">>)>>, <<>>)
    /\ pc' = "done"
    /\ UNCHANGED <<previous, cancelledAt, dynamicClient, listErr, items, idx, errors, details, appSetErrors>>

(* Lines 94-102: the list is empty. *)
RunNoApplicationSets ==
    /\ pc = "start"
    /\ dynamicClient = "set"
    /\ ~listErr
    /\ Len(items) = 0
    /\ calls' = Append(calls, ListApplicationSets)
    /\ response' = Response(<<Sprintf("No ApplicationSets found in the cluster", <<>>)>>, <<>>)
    /\ pc' = "done"
    /\ UNCHANGED <<previous, cancelledAt, dynamicClient, listErr, items, idx, errors, details, appSetErrors>>

(* Lines 104-107: the list succeeded, the loop starts. *)
RunList ==
    /\ pc = "start"
    /\ dynamicClient = "set"
    /\ ~listErr
    /\ Len(items) # 0
    /\ calls' = Append(calls, ListApplicationSets)
    /\ errors' = <<>>
    /\ details' = <<Sprintf("Found %d ApplicationSet(s) in the cluster", <<ToString(Len(items))>>)>>
    /\ idx' = 1
    /\ pc' = "loop"
    /\ UNCHANGED <<previous, cancelledAt, dynamicClient, listErr, items, appSetErrors, response>>

RunConvertFailed_Returns ==
    /\ pc = "loop"
    /\ idx <= Len(items)
    /\ ~items[idx].convertible
    /\ errors' = Append(errors, Sprintf(FmtConvert, <<items[idx].namespace, items[idx].name, "err">>))
    /\ idx' = Len(items) + 1
    /\ UNCHANGED <<previous, cancelledAt, dynamicClient, listErr, items, pc, details, appSetErrors, calls, response>>

(* Lines 110-118: one iteration, the item does not convert. *)
RunConvertFailed ==
    /\ pc = "loop"
    /\ idx <= Len(items)
    /\ ~items[idx].convertible
    /\ errors' = Append(errors, Sprintf(FmtConvert, <<items[idx].namespace, items[idx].name, "err">>))
    /\ idx' = idx + 1
    /\ UNCHANGED <<previous, cancelledAt, dynamicClient, listErr, items, pc, details, appSetErrors, calls, response>>

(* The caller cancels ctx between two ApplicationSets, while the loop has  *)
(* some left. Run reads ctx nowhere (no ctx.Done(), no ctx.Err()): it      *)
(* hands it to every List call, whose outcome, items[k].applications, is   *)
(* the client's.                                                           *)
Cancel ==
    /\ pc = "loop"
    /\ 1 < idx /\ idx <= Len(items)
    /\ cancelledAt = 0
    /\ cancelledAt' = idx
    /\ UNCHANGED <<previous, dynamicClient, listErr, items, pc, idx, errors, details,
                   appSetErrors, calls, response>>

RunAnalyze_Prepends ==
    /\ pc = "loop"
    /\ idx <= Len(items)
    /\ items[idx].convertible
    /\ calls' = Append(calls, ListApplications(items[idx]))
    /\ appSetErrors' = analyzeApplicationSet(items[idx], items[idx].applications)
    /\ errors' = appSetErrors' \o errors
    /\ details' = details
                    \o <<Sprintf("ApplicationSet: %s/%s", <<items[idx].namespace, items[idx].name>>)>>
                    \o ConditionDetails(items[idx])
    /\ idx' = idx + 1
    /\ UNCHANGED <<previous, cancelledAt, dynamicClient, listErr, items, pc, response>>

RunAnalyze_ChecksContext ==
    /\ pc = "loop"
    /\ idx <= Len(items)
    /\ items[idx].convertible
    /\ IF cancelledAt # 0
       THEN /\ idx' = Len(items) + 1
            /\ UNCHANGED <<appSetErrors, errors, details, calls>>
       ELSE /\ calls' = Append(calls, ListApplications(items[idx]))
            /\ appSetErrors' = analyzeApplicationSet(items[idx], items[idx].applications)
            /\ errors' = errors \o appSetErrors'
            /\ details' = details
                    \o <<Sprintf("ApplicationSet: %s/%s", <<items[idx].namespace, items[idx].name>>)>>
                    \o ConditionDetails(items[idx])
            /\ idx' = idx + 1
    /\ UNCHANGED <<previous, cancelledAt, dynamicClient, listErr, items, pc, response>>

(* Lines 110-131: one iteration, the item is analyzed. *)
RunAnalyze ==
    /\ pc = "loop"
    /\ idx <= Len(items)
    /\ items[idx].convertible
    /\ calls' = Append(calls, ListApplications(items[idx]))
    /\ appSetErrors' = analyzeApplicationSet(items[idx], items[idx].applications)
    /\ errors' = errors \o appSetErrors'
    /\ details' = details
                    \o <<Sprintf("ApplicationSet: %s/%s", <<items[idx].namespace, items[idx].name>>)>>
                    \o ConditionDetails(items[idx])
    /\ idx' = idx + 1
    /\ UNCHANGED <<previous, cancelledAt, dynamicClient, listErr, items, pc, response>>

RunReturn_Remembers ==
    /\ pc = "loop"
    /\ idx > Len(items)
    /\ response' = Response(details, IF previous = NoResponse THEN errors ELSE <<>>)
    /\ pc' = "done"
    /\ UNCHANGED <<previous, cancelledAt, dynamicClient, listErr, items, idx, errors, details, appSetErrors, calls>>

(* Lines 133-139: the loop is over, the result is returned. *)
RunReturn ==
    /\ pc = "loop"
    /\ idx > Len(items)
    /\ response' = Response(details, errors)
    /\ pc' = "done"
    /\ UNCHANGED <<previous, cancelledAt, dynamicClient, listErr, items, idx, errors, details, appSetErrors, calls>>

(* Lines 54-58: Run is invoked again on the same Handler and the same      *)
(* cluster, with a fresh ctx: errors and details are new locals, the       *)
(* Handler keeps its only field, dynamicClient.                            *)
RunAgain ==
    /\ pc = "done"
    /\ previous' = response
    /\ response' = NoResponse
    /\ pc' = "start"
    /\ idx' = 0
    /\ errors' = <<>>
    /\ details' = <<>>
    /\ appSetErrors' = <<>>
    /\ calls' = <<>>
    /\ cancelledAt' = 0
    /\ UNCHANGED <<dynamicClient, listErr, items>>

Next ==
    \/ RunNoClient
    \/ RunListFailed
    \/ RunNoApplicationSets
    \/ RunList
    \/ RunConvertFailed
    \/ RunAnalyze
    \/ RunReturn
    \/ Cancel
    \/ RunAgain

Spec == Init /\ [][Next]_vars

----------------------------------------------------------------------------
(* Vocabulary of the properties.                                           *)

ConditionFormats == {FmtErrorCondition, FmtParameters, FmtNotUpToDate}
ProgressingFormats == {FmtProgressing}
GeneratorFormats == {FmtInvalidGenerators, FmtNoGenerators, FmtInvalidGenerator,
                     FmtEmptyGenerator, FmtGitRepoURL, FmtListNoElements, FmtListEmpty,
                     FmtClusterNone, FmtClusterEmpty}
InlineFormats == {FmtInlineHealth, FmtInlineSync}
LiveFormats == {FmtAppHealth, FmtAppSync, FmtAppOperation}

(* The stage a finding belongs to: 1 conditions, 2 progressing,            *)
(* 3 generators, 4 generated applications (anything else).                 *)
StageOf(f) ==
    IF f.format \in ConditionFormats THEN 1
    ELSE IF f.format \in ProgressingFormats THEN 2
    ELSE IF f.format \in GeneratorFormats THEN 3
    ELSE 4

OfStage(fs, n) == SelectSeq(fs, LAMBDA f : StageOf(f) = n)
WithFormat(fs, F) == SelectSeq(fs, LAMBDA f : f.format \in F)

(* The last iteration of the loop analyzed items[idx - 1], and             *)
(* appSetErrors is what analyzeApplicationSet returned for it.             *)
Analyzed == pc \in {"loop", "done"} /\ idx > 1 /\ items[idx - 1].convertible
Current == items[idx - 1]

(* Run went through the loop and returned. *)
Returned == pc = "done" /\ dynamicClient = "set" /\ ~listErr /\ Len(items) > 0

ConditionFindings == WithFormat(appSetErrors, ConditionFormats \cup ProgressingFormats)
PositionOf(f) ==
    CHOOSE i \in 1..Len(Slice(Current.conditions)) :
        Slice(Current.conditions)[i].message = f.args[3]

(* The (type, status) pairs that trigger a finding, and its format. *)
Triggers == {<<"ErrorOccurred", "True">>, <<"ParametersGenerated", "False">>,
             <<"ResourcesUpToDate", "False">>, <<"Progressing", "True">>}
FormatFor(type) ==
    CASE type = "ErrorOccurred" -> FmtErrorCondition
      [] type = "ParametersGenerated" -> FmtParameters
      [] type = "ResourcesUpToDate" -> FmtNotUpToDate
      [] type = "Progressing" -> FmtProgressing
      [] OTHER -> ""
Triggering(c) == c.isMap /\ <<c.type, c.status>> \in Triggers

(* C2, as claimed: the findings of the four recognized condition kinds     *)
(* appear in the order of their conditions in status.conditions.           *)
C2_InputOrder ==
    Analyzed =>
        \A p, q \in 1..Len(ConditionFindings) :
            p < q => PositionOf(ConditionFindings[p]) < PositionOf(ConditionFindings[q])

(* C2, amended: the findings of ErrorOccurred, ParametersGenerated and     *)
(* ResourcesUpToDate conditions keep the order of their conditions, so do  *)
(* the findings of Progressing conditions, and every progressing finding   *)
(* comes after every finding of the other three kinds; for                 *)
(* [Progressing=True, ParametersGenerated=False] the "failed to generate   *)
(* parameters" finding precedes the "is in progressing state" finding.     *)
C2_OrderWithinStage ==
    Analyzed =>
        \A p, q \in 1..Len(ConditionFindings) :
            p < q =>
                /\ StageOf(ConditionFindings[p]) <= StageOf(ConditionFindings[q])
                /\ StageOf(ConditionFindings[p]) = StageOf(ConditionFindings[q])
                      => PositionOf(ConditionFindings[p]) < PositionOf(ConditionFindings[q])

ScenarioC ==
    /\ Analyzed
    /\ Current.conditions.kind = "seq"
    /\ Len(Current.conditions.items) = 2
    /\ Triggering(Current.conditions.items[1]) /\ Current.conditions.items[1].type = "Progressing"
    /\ Triggering(Current.conditions.items[2]) /\ Current.conditions.items[2].type = "ParametersGenerated"

C2_Witness ==
    /\ ScenarioC
    /\ ConditionFindings =
          <<Sprintf(FmtParameters, <<Current.namespace, Current.name, "msg-2">>),
            Sprintf(FmtProgressing, <<Current.namespace, Current.name, "msg-1">>)>>

(* The findings of the generated-applications stage in appSetErrors. *)
DependentFindings == OfStage(appSetErrors, 4)

ApplicationsCalls == SelectSeq(calls, LAMBDA c : c.resource = "applications")
Convertible == SelectSeq(items, LAMBDA it : it.convertible)

C4_ListFailureIsRunFailure ==
    (pc = "done" /\ dynamicClient = "set" /\ listErr) =>
        /\ response.err # "nil"
        /\ response.error = <<>>

(* C4, amended: on a failed list of the ApplicationSets Run analyzes no    *)
(* ApplicationSet and lists no Applications; it returns normally a result  *)
(* whose details is "Failed to list ApplicationSets: <err>" and whose      *)
(* findings hold exactly one entry, "Error listing ApplicationSets: <err>".*)
C4_ListFailureReported ==
    /\ (dynamicClient = "set" /\ listErr) =>
          /\ Len(ApplicationsCalls) = 0
          /\ errors = <<>> /\ appSetErrors = <<>> /\ idx = 0
          /\ pc \in {"start", "done"}
    /\ (pc = "done" /\ dynamicClient = "set" /\ listErr) =>
          /\ response.err = "nil"
          /\ response.name = AnalyzerName
          /\ response.details = <<Sprintf("Failed to list ApplicationSets: %v", <<"err">>)>>
          /\ response.error = <<Sprintf(FmtListFailed, <<"err">>)>>
          /\ calls = <<ListApplicationSets>>

C4_Witness ==
    /\ pc = "done" /\ dynamicClient = "set" /\ listErr
    /\ Len(items) = MaxParents
    /\ \E k \in 1..Len(items) : items[k].convertible
    /\ Len(response.error) = 1

(* C5: when the list of the ApplicationSets succeeds and is empty, Run     *)
(* returns normally the result named "applicationset-analyzer" with        *)
(* details "No ApplicationSets found in the cluster" and no finding, and   *)
(* lists no Applications.                                                  *)
C5_NoApplicationSets ==
    (pc = "done" /\ dynamicClient = "set" /\ ~listErr /\ Len(items) = 0) =>
        /\ response.err = "nil"
        /\ response.name = "applicationset-analyzer"
        /\ response.details = <<Sprintf("No ApplicationSets found in the cluster", <<>>)>>
        /\ response.error = <<>>
        /\ Len(ApplicationsCalls) = 0

C5_Witness ==
    /\ pc = "done" /\ dynamicClient = "set" /\ ~listErr /\ Len(items) = 0
    /\ response.name = AnalyzerName
    /\ calls = <<ListApplicationSets>>

ConvertFinding(it) == Sprintf(FmtConvert, <<it.namespace, it.name, "err">>)
Unconvertible == SelectSeq(items, LAMBDA it : ~it.convertible)

(* C6: an ApplicationSet that does not convert contributes exactly one     *)
(* finding, naming it and the conversion error, and no finding of any      *)
(* stage (its Applications are not listed); Run goes on, and the other     *)
(* ApplicationSets yield the findings they yield without it.               *)
C6_ConversionFailure ==
    /\ (pc \in {"loop", "done"} /\ idx > 1 /\ ~items[idx - 1].convertible) =>
          /\ Len(errors) > 0
          /\ errors[Len(errors)] = ConvertFinding(items[idx - 1])
          /\ \A c \in 1..Len(calls) : calls[c] # ListApplications(items[idx - 1])
    /\ Returned =>
          /\ WithFormat(response.error, {FmtConvert}) =
                [k \in 1..Len(Unconvertible) |-> ConvertFinding(Unconvertible[k])]
          /\ SelectSeq(response.error, LAMBDA f : f.format # FmtConvert) =
                ConcatAll([k \in 1..Len(Convertible) |->
                    analyzeApplicationSet(Convertible[k], Convertible[k].applications)])

C6_Witness ==
    /\ Returned
    /\ Len(items) = 2
    /\ ~items[1].convertible
    /\ items[2].convertible
    /\ response.error[1] = ConvertFinding(items[1])
    /\ Len(response.error) > 2

(* The ApplicationSet a finding names: the findings of the conditions,     *)
(* progressing and generators stages and the conversion finding carry the  *)
(* name of their ApplicationSet as second argument.                        *)
NamesParent(f) == StageOf(f) \in {1, 2, 3} \/ f.format \in {FmtConvert, FmtNoApplications}
ParentOf(f) == CHOOSE k \in 1..Len(items) : items[k].name = f.args[2]

Contribution(k) ==
    IF items[k].convertible
    THEN analyzeApplicationSet(items[k], items[k].applications)
    ELSE <<ConvertFinding(items[k])>>

(* C7: the findings of a run are the findings of each ApplicationSet, one  *)
(* block after the other in the order of the list: a finding of an earlier *)
(* ApplicationSet never follows a finding of a later one.                  *)
C7_ParentOrder ==
    /\ pc \in {"loop", "done"} =>
          /\ errors = ConcatAll([k \in 1..(idx - 1) |-> Contribution(k)])
          /\ \A p, q \in 1..Len(errors) :
                (p < q /\ NamesParent(errors[p]) /\ NamesParent(errors[q]))
                    => ParentOf(errors[p]) <= ParentOf(errors[q])
    /\ Returned => response.error = ConcatAll([k \in 1..Len(items) |-> Contribution(k)])

C7_Witness ==
    /\ Returned
    /\ Len(items) = 2
    /\ Len(Contribution(1)) >= 2 /\ Len(Contribution(2)) >= 2
    /\ \E p \in 1..Len(response.error) :
          NamesParent(response.error[p]) /\ ParentOf(response.error[p]) = 1
    /\ \E p \in 1..Len(response.error) :
          NamesParent(response.error[p]) /\ ParentOf(response.error[p]) = 2

Conditions == Slice(Current.conditions)
FindingsFor(i) ==
    SelectSeq(ConditionFindings, LAMBDA f : f.args[3] = Conditions[i].message)

(* C8: a condition yields a finding if and only if its (type, status) is   *)
(* (ErrorOccurred, True), (ParametersGenerated, False),                    *)
(* (ResourcesUpToDate, False) or (Progressing, True), compared             *)
(* case-sensitively; then it yields exactly one, of the format of its type,*)
(* naming the ApplicationSet and carrying its message; any other condition *)
(* and an absent conditions list yield none.                               *)
C8_ConditionTriggers ==
    Analyzed =>
        /\ \A i \in 1..Len(Conditions) :
              Conditions[i].isMap =>
                  FindingsFor(i) =
                      IF <<Conditions[i].type, Conditions[i].status>> \in Triggers
                      THEN <<Sprintf(FormatFor(Conditions[i].type),
                                     <<Current.namespace, Current.name, Conditions[i].message>>)>>
                      ELSE <<>>
        /\ Len(ConditionFindings) =
              Cardinality({i \in 1..Len(Conditions) : Triggering(Conditions[i])})
        /\ Current.conditions.kind # "seq" => ConditionFindings = <<>>

C8_Witness ==
    /\ Analyzed
    /\ Len(Conditions) = 2
    /\ Conditions[1].isMap /\ Conditions[1].type = "progressing" /\ Conditions[1].status = "True"
    /\ Conditions[2].isMap /\ Conditions[2].type = "ErrorOccurred" /\ Conditions[2].status = "True"
    /\ ConditionFindings =
          <<Sprintf(FmtErrorCondition, <<Current.namespace, Current.name, "msg-2">>)>>

GeneratorFindings == OfStage(appSetErrors, 3)

(* C9: when spec.generators is absent or an empty sequence, the generator  *)
(* stage yields exactly one finding, "has no generators defined", and no   *)
(* finding about a generator entry.                                        *)
C9_NoGenerators ==
    (Analyzed /\ (Current.generators.kind = "absent"
                  \/ (Current.generators.kind = "seq" /\ Len(Current.generators.items) = 0))) =>
        GeneratorFindings = <<Sprintf(FmtNoGenerators, <<Current.namespace, Current.name>>)>>

C9_Witness ==
    /\ Analyzed
    /\ Current.generators.kind = "absent"
    /\ Len(GeneratorFindings) = 1
    /\ GeneratorFindings[1].format = FmtNoGenerators

InlineCount(entries) ==
    Cardinality({i \in 1..Len(entries) :
                    entries[i].isMap /\ entries[i].health \notin {"", "Healthy"}})
    + Cardinality({i \in 1..Len(entries) :
                    entries[i].isMap /\ entries[i].sync \notin {"", "Synced"}})
LiveCount(apps) ==
    Cardinality({i \in 1..Len(apps) : apps[i].healthFound /\ apps[i].health # "Healthy"})
    + Cardinality({i \in 1..Len(apps) : apps[i].syncFound /\ apps[i].sync # "Synced"})
    + Cardinality({i \in 1..Len(apps) : apps[i].phaseFound /\ apps[i].phase = "Failed"})

ScenarioD ==
    /\ Analyzed
    /\ ~Current.applications.err
    /\ Slice(Current.applicationStatus) =
          <<[isMap |-> TRUE, application |-> "app-1", health |-> "Degraded",
             sync |-> "OutOfSync", message |-> "Application is unhealthy"]>>
    /\ Len(Current.applications.items) = 1
    /\ Current.applications.items[1].name = "app-1"
    /\ ~Current.applications.items[1].healthFound
    /\ ~Current.applications.items[1].syncFound
    /\ Current.applications.items[1].phaseFound /\ Current.applications.items[1].phase = "Failed"

(* C10: the findings of the inline status.applicationStatus and those of   *)
(* the live Applications are all returned, none dropped because the other  *)
(* source names the same application: the stage returns as many inline     *)
(* findings as the inline entries call for and as many live findings as    *)
(* the live Applications call for; an inline entry                         *)
(* {Degraded, OutOfSync} and a live Application of the same name with only *)
(* operationState.phase = Failed yield exactly three findings: not         *)
(* healthy, not synced, failed operation.                                  *)
C10_NoDeduplication ==
    /\ (Analyzed /\ ~Current.applications.err) =>
          /\ Len(WithFormat(DependentFindings, InlineFormats)) =
                InlineCount(Slice(Current.applicationStatus))
          /\ Len(WithFormat(DependentFindings, LiveFormats)) =
                LiveCount(Current.applications.items)
    /\ ScenarioD =>
          DependentFindings =
              <<Sprintf(FmtInlineHealth, <<"app-1", "Degraded", "Application is unhealthy">>),
                Sprintf(FmtInlineSync, <<"app-1", "OutOfSync">>),
                Sprintf(FmtAppOperation, <<"default", "app-1", "Sync operation failed">>)>>

C10_Witness ==
    /\ ScenarioD
    /\ Len(DependentFindings) = 3

(* A generator entry in order: a mapping with a known tag whose git, list  *)
(* and clusters values pass their structural rules.                        *)
KnownTags == {"git", "list", "clusters", "matrix", "merge", "scmProvider",
              "clusterDecisionResource", "pullRequest"}
ValidGenerator(g) ==
    /\ g.isMap
    /\ g.keys \cap KnownTags # {}
    /\ "git" \in g.keys => (g.git.isMap /\ g.git.hasRepoURL /\ g.git.repoURL # "")
    /\ "list" \in g.keys =>
          /\ g.list.isMap
          /\ g.list.hasElements \/ g.list.hasElementsYaml
          /\ g.list.hasElements => (g.list.elementsIsSlice /\ g.list.elementsLen > 0)
    /\ "clusters" \in g.keys =>
          /\ g.clusters.isMap
          /\ g.clusters.hasSelector \/ g.clusters.hasValues
          /\ g.clusters.hasValues => (g.clusters.valuesIsMap /\ g.clusters.valuesLen > 0)

Generators == Slice(Current.generators)
InlineSummary == Slice(Current.applicationStatus)
LiveApplications == Current.applications.items

NoTrigger == \A i \in 1..Len(Conditions) : ~Triggering(Conditions[i])
InlineAllHealthy ==
    \A i \in 1..Len(InlineSummary) :
        /\ InlineSummary[i].isMap
        /\ InlineSummary[i].health = "Healthy"
        /\ InlineSummary[i].sync = "Synced"
LiveAllHealthy ==
    \A i \in 1..Len(LiveApplications) :
        /\ LiveApplications[i].healthFound => LiveApplications[i].health = "Healthy"
        /\ LiveApplications[i].syncFound => LiveApplications[i].sync = "Synced"
        /\ LiveApplications[i].phaseFound => LiveApplications[i].phase # "Failed"

(* C11, as claimed: an ApplicationSet with at least one valid generator,   *)
(* no triggering condition, an inline summary all Healthy and Synced and   *)
(* no live Application unhealthy, unsynced or failed yields no finding.    *)
C11_HealthyAsClaimed ==
    (/\ Analyzed
     /\ \E i \in 1..Len(Generators) : ValidGenerator(Generators[i])
     /\ NoTrigger /\ InlineAllHealthy /\ LiveAllHealthy) =>
        appSetErrors = <<>>

(* C11, amended: an ApplicationSet whose generators are all valid (at      *)
(* least one), with no triggering condition, a non-empty inline summary    *)
(* all Healthy and Synced and no live Application unhealthy, unsynced or   *)
(* failed yields no finding; the non-empty inline summary suppresses "has  *)
(* no generated applications" also when the live list returns nothing.     *)
C11_HealthyNoFindings ==
    (/\ Analyzed
     /\ Len(Generators) > 0
     /\ \A i \in 1..Len(Generators) : ValidGenerator(Generators[i])
     /\ NoTrigger
     /\ Len(InlineSummary) > 0 /\ InlineAllHealthy
     /\ LiveAllHealthy) =>
        appSetErrors = <<>>

C11_Witness ==
    /\ Analyzed
    /\ Len(Generators) > 0
    /\ \A i \in 1..Len(Generators) : ValidGenerator(Generators[i])
    /\ Len(Conditions) = 1 /\ NoTrigger
    /\ Len(InlineSummary) = 1 /\ InlineAllHealthy
    /\ ~Current.applications.err /\ Len(LiveApplications) = 0
    /\ appSetErrors = <<>>

(* The ApplicationSets the loop went through before ctx was cancelled, and *)
(* the findings gathered from them.                                        *)
Cancelled == cancelledAt # 0
BeforeCancel == ConcatAll([k \in 1..(cancelledAt - 1) |-> Contribution(k)])
ListedParents(n) == Cardinality({k \in 1..n : items[k].convertible})

(* C12, as claimed: once ctx is cancelled Run issues no new list call for  *)
(* the Applications of the remaining ApplicationSets; the findings         *)
(* gathered before the cancellation are still returned.                    *)
C12_NoFetchAfterCancel ==
    /\ Cancelled => Len(ApplicationsCalls) <= ListedParents(cancelledAt - 1)
    /\ (Cancelled /\ pc = "done") =>
          SubSeq(response.error, 1, Len(BeforeCancel)) = BeforeCancel

(* C12, amended: Run never looks at ctx, it only hands it to the List      *)
(* calls: after a cancellation it still goes through every remaining       *)
(* ApplicationSet and issues the list call for the Applications of each    *)
(* one that converts; stopping the fetch is the client's part. Run returns *)
(* normally, and its findings start with those gathered before the         *)
(* cancellation.                                                           *)
C12_CancelLeftToClient ==
    /\ (Cancelled /\ pc \in {"loop", "done"}) =>
          /\ Len(ApplicationsCalls) = ListedParents(idx - 1)
          /\ \A k \in 1..Len(ApplicationsCalls) :
                ApplicationsCalls[k] = ListApplications(Convertible[k])
    /\ (Cancelled /\ pc = "done") =>
          /\ idx = Len(items) + 1
          /\ response.err = "nil"
          /\ Len(ApplicationsCalls) = Len(Convertible)
          /\ SubSeq(response.error, 1, Len(BeforeCancel)) = BeforeCancel

C12_Witness ==
    /\ Cancelled /\ pc = "done"
    /\ Len(items) = 2 /\ cancelledAt = 2
    /\ items[1].convertible /\ Len(BeforeCancel) >= 2
    /\ items[2].convertible /\ items[2].applications.err
    /\ Len(ApplicationsCalls) = 2
    /\ Len(response.error) > Len(BeforeCancel)

GeneratorFindingsAt(i) ==
    SelectSeq(GeneratorFindings, LAMBDA f : Len(f.args) = 3 /\ f.args[3] = ToString(i - 1))
EmptyGeneratorFinding(i) ==
    Sprintf(FmtEmptyGenerator, <<Current.namespace, Current.name, ToString(i - 1)>>)

(* C14, as claimed: a generator entry that is a mapping with none of the   *)
(* known tags, empty or holding only unrecognized keys, yields exactly the *)
(* finding "has empty generator at index N" and no other; an entry with a  *)
(* known tag never yields it.                                              *)
C14_NoKnownTagIsEmpty ==
    Analyzed =>
        \A i \in 1..Len(Generators) :
            Generators[i].isMap =>
                IF Generators[i].keys \cap KnownTags = {}
                THEN GeneratorFindingsAt(i) = <<EmptyGeneratorFinding(i)>>
                ELSE \A p \in 1..Len(GeneratorFindingsAt(i)) :
                        GeneratorFindingsAt(i)[p].format # FmtEmptyGenerator

AtIndex(F, i) == Sprintf(F, <<Current.namespace, Current.name, ToString(i - 1)>>)
GitFindingsAt(i) == WithFormat(GeneratorFindingsAt(i), {FmtGitRepoURL})
ListFindingsAt(i) == WithFormat(GeneratorFindingsAt(i), {FmtListNoElements, FmtListEmpty})
ClusterFindingsAt(i) == WithFormat(GeneratorFindingsAt(i), {FmtClusterNone, FmtClusterEmpty})
Tagged(tag) == {i \in 1..Len(Generators) : Generators[i].isMap /\ tag \in Generators[i].keys}

(* C15, as claimed: every generator entry carrying a git tag yields        *)
(* exactly one finding "Git generator at index N has empty repoURL" when   *)
(* repoURL is missing or "", and none when it is non-empty; N is the       *)
(* zero-based position of the entry.                                       *)
C15_GitTagAsClaimed ==
    Analyzed =>
        \A i \in Tagged("git") :
            GitFindingsAt(i) =
                IF ~Generators[i].git.hasRepoURL \/ Generators[i].git.repoURL = ""
                THEN <<AtIndex(FmtGitRepoURL, i)>>
                ELSE <<>>

(* C15, amended: a generator entry whose git tag holds a mapping yields    *)
(* exactly one finding "Git generator at index N has empty repoURL" when   *)
(* repoURL is missing or "", and none when it is non-empty; N is the       *)
(* zero-based position of the entry. A git tag whose value is no mapping   *)
(* yields no Git finding.                                                  *)
C15_GitRepoURL ==
    Analyzed =>
        \A i \in Tagged("git") :
            GitFindingsAt(i) =
                IF Generators[i].git.isMap
                   /\ (~Generators[i].git.hasRepoURL \/ Generators[i].git.repoURL = "")
                THEN <<AtIndex(FmtGitRepoURL, i)>>
                ELSE <<>>

C15_Witness ==
    /\ Analyzed
    /\ Tagged("git") = {1, 2}
    /\ Generators[1].git.isMap /\ ~Generators[1].git.hasRepoURL
    /\ Generators[2].git.isMap /\ Generators[2].git.hasRepoURL /\ Generators[2].git.repoURL = ""
    /\ GeneratorFindings = <<AtIndex(FmtGitRepoURL, 1), AtIndex(FmtGitRepoURL, 2)>>
    /\ GeneratorFindings[2].args[3] = "1"

(* C16, as claimed: for every List generator entry, neither elements nor   *)
(* elementsYaml present yields "has no elements or elementsYaml" as the    *)
(* only List finding; a non-empty elements sequence or an elementsYaml     *)
(* yields no "no elements" finding; elements present as an empty sequence  *)
(* yields "has empty elements array" instead; never both.                  *)
C16_ListAsClaimed ==
    Analyzed =>
        \A i \in Tagged("list") :
            LET l == Generators[i].list
            IN  /\ (~l.hasElements /\ ~l.hasElementsYaml) =>
                      ListFindingsAt(i) = <<AtIndex(FmtListNoElements, i)>>
                /\ ((l.hasElements /\ l.elementsIsSlice /\ l.elementsLen > 0) \/ l.hasElementsYaml) =>
                      WithFormat(ListFindingsAt(i), {FmtListNoElements}) = <<>>
                /\ (l.hasElements /\ l.elementsIsSlice /\ l.elementsLen = 0) =>
                      ListFindingsAt(i) = <<AtIndex(FmtListEmpty, i)>>
                /\ Len(ListFindingsAt(i)) <= 1

(* C16, amended: for every generator entry whose list tag holds a mapping, *)
(* neither elements nor elementsYaml present yields "has no elements or    *)
(* elementsYaml" as the only List finding; otherwise elements present as   *)
(* an empty sequence yields "has empty elements array", with or without an *)
(* elementsYaml next to it, and anything else yields no List finding;      *)
(* never both. A list tag whose value is no mapping yields no List         *)
(* finding.                                                                *)
C16_ListElements ==
    Analyzed =>
        \A i \in Tagged("list") :
            LET l == Generators[i].list
            IN  ListFindingsAt(i) =
                    IF ~l.isMap THEN <<>>
                    ELSE IF ~l.hasElements /\ ~l.hasElementsYaml
                    THEN <<AtIndex(FmtListNoElements, i)>>
                    ELSE IF l.hasElements /\ l.elementsIsSlice /\ l.elementsLen = 0
                    THEN <<AtIndex(FmtListEmpty, i)>>
                    ELSE <<>>

C16_Witness ==
    /\ Analyzed
    /\ Tagged("list") = {1, 2}
    /\ Generators[1].list.isMap /\ ~Generators[1].list.hasElements /\ Generators[1].list.hasElementsYaml
    /\ Generators[2].list.isMap /\ Generators[2].list.hasElements /\ Generators[2].list.hasElementsYaml
    /\ Generators[2].list.elementsLen = 0
    /\ GeneratorFindings = <<AtIndex(FmtListEmpty, 2)>>

(* C17, as claimed: for every Clusters generator entry, neither selector   *)
(* nor values present yields "has no selector or values" as the only       *)
(* Cluster finding; otherwise values present as an empty mapping yields    *)
(* "has empty values"; anything else yields none; never both.              *)
C17_ClustersAsClaimed ==
    Analyzed =>
        \A i \in Tagged("clusters") :
            LET c == Generators[i].clusters
            IN  ClusterFindingsAt(i) =
                    IF ~c.hasSelector /\ ~c.hasValues
                    THEN <<AtIndex(FmtClusterNone, i)>>
                    ELSE IF c.hasValues /\ c.valuesIsMap /\ c.valuesLen = 0
                    THEN <<AtIndex(FmtClusterEmpty, i)>>
                    ELSE <<>>

(* C17, amended: for every generator entry whose clusters tag holds a      *)
(* mapping, neither selector nor values present yields "has no selector or *)
(* values" as the only Cluster finding; otherwise values present as an     *)
(* empty mapping yields "has empty values", with or without a selector;    *)
(* anything else yields none; never both. A clusters tag whose value is no *)
(* mapping yields no Cluster finding.                                      *)
C17_ClusterValues ==
    Analyzed =>
        \A i \in Tagged("clusters") :
            LET c == Generators[i].clusters
            IN  ClusterFindingsAt(i) =
                    IF ~c.isMap THEN <<>>
                    ELSE IF ~c.hasSelector /\ ~c.hasValues
                    THEN <<AtIndex(FmtClusterNone, i)>>
                    ELSE IF c.hasValues /\ c.valuesIsMap /\ c.valuesLen = 0
                    THEN <<AtIndex(FmtClusterEmpty, i)>>
                    ELSE <<>>

C17_Witness ==
    /\ Analyzed
    /\ Tagged("clusters") = {1, 2}
    /\ Generators[1].clusters.isMap /\ ~Generators[1].clusters.hasSelector
    /\ ~Generators[1].clusters.hasValues
    /\ Generators[2].clusters.isMap /\ Generators[2].clusters.hasSelector
    /\ Generators[2].clusters.hasValues /\ Generators[2].clusters.valuesLen = 0
    /\ GeneratorFindings = <<AtIndex(FmtClusterNone, 1), AtIndex(FmtClusterEmpty, 2)>>

(* The findings of the i-th inline entry and of the i-th live Application: *)
(* the i-th of either is named "app-i".                                    *)
AppName(i) == "app-" \o ToString(i)
InlineFindingsFor(i) ==
    SelectSeq(WithFormat(DependentFindings, InlineFormats), LAMBDA f : f.args[1] = AppName(i))
LiveFindingsFor(i) ==
    SelectSeq(WithFormat(DependentFindings, LiveFormats), LAMBDA f : f.args[2] = AppName(i))

(* The health and sync rule of the inline summary: a value that is neither *)
(* empty nor the good one calls for a finding.                             *)
Unhealthy(h) == h # "" /\ h # "Healthy"
Unsynced(sy) == sy # "" /\ sy # "Synced"

(* C18: an entry of status.applicationStatus yields a "not healthy"        *)
(* finding if and only if its health is non-empty and not "Healthy", and a *)
(* "not synced" finding if and only if its sync is non-empty and not       *)
(* "Synced"; a missing field yields no finding for that field; the health  *)
(* finding of an entry precedes its sync finding.                          *)
C18_InlineThresholds ==
    Analyzed =>
        \A i \in 1..Len(InlineSummary) :
            LET e == InlineSummary[i]
            IN  InlineFindingsFor(i) =
                    (IF e.isMap /\ Unhealthy(e.health)
                     THEN <<Sprintf(FmtInlineHealth, <<AppName(i), e.health, e.message>>)>>
                     ELSE <<>>)
                    \o
                    (IF e.isMap /\ Unsynced(e.sync)
                     THEN <<Sprintf(FmtInlineSync, <<AppName(i), e.sync>>)>>
                     ELSE <<>>)

C18_Witness ==
    /\ Analyzed
    /\ Len(InlineSummary) = 2
    /\ InlineSummary[1].isMap /\ InlineSummary[1].health = "" /\ InlineSummary[1].sync = "OutOfSync"
    /\ InlineSummary[2].isMap /\ InlineSummary[2].health = "Degraded"
    /\ InlineSummary[2].sync = "OutOfSync"
    /\ WithFormat(DependentFindings, InlineFormats) =
          <<Sprintf(FmtInlineSync, <<"app-1", "OutOfSync">>),
            Sprintf(FmtInlineHealth, <<"app-2", "Degraded", "Application is unhealthy">>),
            Sprintf(FmtInlineSync, <<"app-2", "OutOfSync">>)>>

(* The value a live Application carries for a field: "" when the field is  *)
(* missing.                                                                *)
Carried(found, value) == IF found THEN value ELSE ""

(* C19, as claimed: a live Application is held to the thresholds of the    *)
(* inline summary (a health finding if and only if health is non-empty and *)
(* not "Healthy", a sync finding if and only if sync is non-empty and not  *)
(* "Synced"), plus a "has failed operation" finding if and only if         *)
(* status.operationState.phase is "Failed"; a live Application and an      *)
(* inline entry with the same health and sync yield the same number of     *)
(* health and sync findings.                                               *)
C19_LiveAsInline ==
    (Analyzed /\ ~Current.applications.err) =>
        \A i \in 1..Len(LiveApplications) :
            LET a == LiveApplications[i]
                h == Carried(a.healthFound, a.health)
                sy == Carried(a.syncFound, a.sync)
            IN  /\ LiveFindingsFor(i) =
                      (IF Unhealthy(h)
                       THEN <<Sprintf(FmtAppHealth, <<a.namespace, a.name, h, a.healthMessage>>)>>
                       ELSE <<>>)
                      \o
                      (IF Unsynced(sy)
                       THEN <<Sprintf(FmtAppSync, <<a.namespace, a.name, sy>>)>>
                       ELSE <<>>)
                      \o
                      (IF a.phaseFound /\ a.phase = "Failed"
                       THEN <<Sprintf(FmtAppOperation, <<a.namespace, a.name, a.operationMessage>>)>>
                       ELSE <<>>)
                /\ Len(WithFormat(LiveFindingsFor(i), {FmtAppHealth, FmtAppSync})) =
                      Len(InlineErrors([isMap |-> TRUE, application |-> a.name,
                                        health |-> h, sync |-> sy, message |-> ""]))

NoApplicationsFindings == WithFormat(DependentFindings, {FmtNoApplications})
NoApplicationsFinding == Sprintf(FmtNoApplications, <<Current.namespace, Current.name>>)

(* C20, as claimed: "has no generated applications" is produced if and     *)
(* only if the live list succeeds with zero documents and                  *)
(* status.applicationStatus is empty or absent; at most once; never when   *)
(* the list fails or either source is non-empty.                           *)
C20_NoApplicationsAsClaimed ==
    Analyzed =>
        NoApplicationsFindings =
            IF /\ ~Current.applications.err
               /\ Len(LiveApplications) = 0
               /\ \/ Current.applicationStatus.kind = "absent"
                  \/ /\ Current.applicationStatus.kind = "seq"
                     /\ Len(Current.applicationStatus.items) = 0
            THEN <<NoApplicationsFinding>>
            ELSE <<>>

(* C20, amended: "has no generated applications" is produced if and only   *)
(* if the live list succeeds with zero documents and                       *)
(* status.applicationStatus is empty, absent or not a sequence; at most    *)
(* once; never when the list fails, the list returns a document or the     *)
(* summary holds an entry.                                                 *)
C20_NoApplications ==
    Analyzed =>
        NoApplicationsFindings =
            IF /\ ~Current.applications.err
               /\ Len(LiveApplications) = 0
               /\ \/ Current.applicationStatus.kind \in {"absent", "invalid"}
                  \/ /\ Current.applicationStatus.kind = "seq"
                     /\ Len(Current.applicationStatus.items) = 0
            THEN <<NoApplicationsFinding>>
            ELSE <<>>

C20_Witness ==
    /\ Analyzed
    /\ ~Current.applications.err /\ Len(LiveApplications) = 0
    /\ Current.applicationStatus.kind = "seq" /\ Len(Current.applicationStatus.items) = 0
    /\ DependentFindings = <<NoApplicationsFinding>>
    /\ Len(appSetErrors) > 1

(* The generator stage returned early: spec.generators is absent, empty or *)
(* not a sequence.                                                         *)
GeneratorsCutShort == Current.generators.kind # "seq" \/ Len(Current.generators.items) = 0

(* C21: no finding stops the analysis: for every ApplicationSet that       *)
(* converts the four stages all run, whatever the earlier ones found; the  *)
(* early return of the generator stage on "has no generators defined" or   *)
(* "has invalid generators configuration" leaves the Applications listed   *)
(* and analyzed for that ApplicationSet, and every later ApplicationSet is *)
(* analyzed.                                                               *)
C21_FindingsAreAdvisory ==
    /\ Analyzed =>
          /\ OfStage(appSetErrors, 1) = checkConditions(Current)
          /\ OfStage(appSetErrors, 2) = checkProgressingState(Current)
          /\ OfStage(appSetErrors, 3) = analyzeGenerators(Current)
          /\ OfStage(appSetErrors, 4) = analyzeGeneratedApplications(Current, Current.applications)
          /\ Len(ApplicationsCalls) > 0
          /\ ApplicationsCalls[Len(ApplicationsCalls)] = ListApplications(Current)
    /\ (Analyzed /\ GeneratorsCutShort) =>
          /\ Len(GeneratorFindings) = 1
          /\ GeneratorFindings[1].format \in {FmtNoGenerators, FmtInvalidGenerators}
          /\ DependentFindings = analyzeGeneratedApplications(Current, Current.applications)
    /\ Returned =>
          /\ idx = Len(items) + 1
          /\ Len(ApplicationsCalls) = Len(Convertible)

C21_Witness ==
    /\ Returned
    /\ Len(items) = 2
    /\ items[1].convertible /\ items[1].generators.kind = "seq"
    /\ Len(items[1].generators.items) = 0
    /\ \E p \in 1..Len(Contribution(1)) : StageOf(Contribution(1)[p]) = 1
    /\ \E p \in 1..Len(Contribution(1)) : Contribution(1)[p].format = FmtNoGenerators
    /\ \E p \in 1..Len(Contribution(1)) : Contribution(1)[p].format = FmtAppOperation
    /\ items[2].convertible /\ GeneratorsCutShort
    /\ Len(DependentFindings) = 3
    /\ response.error = Contribution(1) \o appSetErrors

(* The status lines of the ApplicationSet analyzed last, by kind.          *)
StatusDetails == getApplicationSetStatus(Current)
ConditionLines == WithFormat(StatusDetails, {FmtStatusCondition})
ApplicationLines == WithFormat(StatusDetails, {FmtStatusApp})
GeneratedLines == WithFormat(StatusDetails, {FmtStatusGenerated})
Listable(e) == e.isMap /\ e.application # ""

RankOf(f) ==
    CASE f.format = FmtAppHealth -> 1
      [] f.format = FmtAppSync -> 2
      [] OTHER -> 3

InlineFindings == WithFormat(DependentFindings, InlineFormats)
LiveFindings == WithFormat(DependentFindings, LiveFormats)

(* C23: the findings of the generated-applications stage come source by    *)
(* source: those of status.applicationStatus in entry order, then "has no  *)
(* generated applications", then those of the live Applications in list    *)
(* order, each Application giving health, then sync, then failed           *)
(* operation; when the list fails the stage returns the inline findings,   *)
(* in order, and nothing else.                                             *)
C23_DependentsOrder ==
    Analyzed =>
        /\ DependentFindings = InlineFindings \o NoApplicationsFindings \o LiveFindings
        /\ InlineFindings = ConcatAll([i \in 1..Len(InlineSummary) |-> InlineFindingsFor(i)])
        /\ LiveFindings =
              IF Current.applications.err THEN <<>>
              ELSE ConcatAll([i \in 1..Len(LiveApplications) |-> LiveFindingsFor(i)])
        /\ \A i \in 1..Len(LiveApplications) :
              \A p, q \in 1..Len(LiveFindingsFor(i)) :
                  p < q => RankOf(LiveFindingsFor(i)[p]) < RankOf(LiveFindingsFor(i)[q])
        /\ Current.applications.err =>
              /\ DependentFindings = InlineFindings
              /\ NoApplicationsFindings = <<>>

C23_Witness ==
    /\ Analyzed
    /\ ~Current.applications.err
    /\ Len(InlineSummary) = 1 /\ Len(InlineFindingsFor(1)) = 2
    /\ Len(LiveApplications) = 2
    /\ Len(LiveFindingsFor(1)) = 3 /\ Len(LiveFindingsFor(2)) = 1
    /\ Len(DependentFindings) = 6
    /\ DependentFindings[3].format = FmtAppHealth /\ DependentFindings[3].args[2] = "app-1"
    /\ DependentFindings[5].format = FmtAppOperation /\ DependentFindings[5].args[2] = "app-1"
    /\ DependentFindings[6].args[2] = "app-2"

====
